---- MODULE Spec2Model ----
(***************************************************************************)
(* A model of supervisor/arch.py: the CpuArch resolver.                    *)
(*                                                                         *)
(* Raw CPU strings (platform.machine()) are sequences of one-character     *)
(* strings, so that lower-casing, exact lookup in MAP_CPU and the          *)
(* substring tests of detect_cpu are computed and not assumed.             *)
(* Architecture tags, machine types and exception names are compared by    *)
(* equality only and are plain strings.                                    *)
(***************************************************************************)
EXTENDS Integers, Sequences, FiniteSets, TLC

VARIABLES
    arch_data,       \* content of data/arch.json: machine type -> list of tags
    sys_machine,     \* coresys machine type; "" when it cannot be detected
    cpu_arch_raw,    \* what platform.machine() returns, not yet lower-cased
    default_arch,    \* self._default_arch, NoDefault while the attribute is unset
    supported_arch,  \* self._supported_arch
    supported_set,   \* self._supported_set
    started,         \* number of load() coroutines started so far
    awaiting,        \* number of load() coroutines suspended at the await of line 53
    awaiting_fresh,  \* those of them that were called on a still empty resolver
    loads_ok,        \* number of load() calls that ran lines 58-91 and returned
    last_op,         \* the operation that completed last
    last_arg,        \* its arch_list argument (<<>> when it takes none)
    last_read,       \* load(): outcome of read_json_file
    last_ret,        \* its return value
    last_exc,        \* the exception it raised, "none" when it returned
    last_fresh,      \* load(): it was called on a still empty resolver
    pre_default,     \* default_arch, supported_arch, supported_set when it began
    pre_supported,
    pre_set

vars == <<arch_data, sys_machine, cpu_arch_raw, default_arch, supported_arch,
          supported_set, started, awaiting, awaiting_fresh, loads_ok, last_op,
          last_arg, last_read, last_ret, last_exc, last_fresh, pre_default,
          pre_supported, pre_set>>

env == <<arch_data, sys_machine, cpu_arch_raw>>
resolver == <<default_arch, supported_arch, supported_set>>
calls == <<started, awaiting, awaiting_fresh, loads_ok>>

----------------------------------------------------------------------------
(* Bounds *)

\* load() calls per behaviour
MaxLoads == 2
\* length of a list of the compatibility table
MaxListLen == 2
\* length of the arch_list handed to is_supported() and match()
MaxArchList == 2
\* fragments a raw CPU string is put together from
MaxFrags == 3

----------------------------------------------------------------------------
(* Vocabulary *)

Tags == {"armv7", "armhf", "aarch64", "i386", "amd64"}

\* self._default_arch is declared but not assigned in __init__
NoDefault == "<unset>"

\* set(list)
Range(s) == {s[i] : i \in 1..Len(s)}

SeqsUpTo(S, n) == UNION {[1..k -> S] : k \in 0..n}

----------------------------------------------------------------------------
(* Strings as character sequences *)

LowerOf ==
    ("A" :> "a") @@ ("B" :> "b") @@ ("C" :> "c") @@ ("D" :> "d") @@
    ("E" :> "e") @@ ("F" :> "f") @@ ("G" :> "g") @@ ("H" :> "h") @@
    ("I" :> "i") @@ ("J" :> "j") @@ ("K" :> "k") @@ ("L" :> "l") @@
    ("M" :> "m") @@ ("N" :> "n") @@ ("O" :> "o") @@ ("P" :> "p") @@
    ("Q" :> "q") @@ ("R" :> "r") @@ ("S" :> "s") @@ ("T" :> "t") @@
    ("U" :> "u") @@ ("V" :> "v") @@ ("W" :> "w") @@ ("X" :> "x") @@
    ("Y" :> "y") @@ ("Z" :> "z")

\* str.lower()
lower(s) ==
    [i \in 1..Len(s) |-> IF s[i] \in DOMAIN LowerOf THEN LowerOf[s[i]] ELSE s[i]]

\* sub in s
Contains(s, sub) ==
    \E i \in 0..(Len(s) - Len(sub)) : SubSeq(s, i + 1, i + Len(sub)) = sub

S_arm == <<"a", "r", "m">>
S_v7 == <<"v", "7">>
S_v8 == <<"v", "8">>
S_armv7 == <<"a", "r", "m", "v", "7">>
S_armv6 == <<"a", "r", "m", "v", "6">>
S_armv8 == <<"a", "r", "m", "v", "8">>
S_aarch64 == <<"a", "a", "r", "c", "h", "6", "4">>
S_i686 == <<"i", "6", "8", "6">>
S_x86_64 == <<"x", "8", "6", "_", "6", "4">>

MAP_CPU ==
    (S_armv7 :> "armv7") @@ (S_armv6 :> "armhf") @@ (S_armv8 :> "aarch64") @@
    (S_aarch64 :> "aarch64") @@ (S_i686 :> "i386") @@ (S_x86_64 :> "amd64")

\* A mutant of detect_cpu: the v7 rule is tried before the v8 rule.
detect_cpu_v7_first(raw) ==
    LET cpu_arch == lower(raw) IN
    IF cpu_arch \in DOMAIN MAP_CPU THEN MAP_CPU[cpu_arch]
    ELSE IF Contains(cpu_arch, S_aarch64) THEN "aarch64"
    ELSE IF Contains(cpu_arch, S_arm) /\ Contains(cpu_arch, S_v7) THEN "armv7"
    ELSE IF Contains(cpu_arch, S_arm) /\ Contains(cpu_arch, S_v8) THEN "aarch64"
    ELSE IF Contains(cpu_arch, S_arm) THEN "armhf"
    ELSE "amd64"

detect_cpu(raw) ==
    LET cpu_arch == lower(raw) IN
    IF cpu_arch \in DOMAIN MAP_CPU THEN MAP_CPU[cpu_arch]
    ELSE IF Contains(cpu_arch, S_aarch64) THEN "aarch64"
    ELSE IF Contains(cpu_arch, S_arm) /\ Contains(cpu_arch, S_v8) THEN "aarch64"
    ELSE IF Contains(cpu_arch, S_arm) /\ Contains(cpu_arch, S_v7) THEN "armv7"
    ELSE IF Contains(cpu_arch, S_arm) THEN "armhf"
    ELSE "amd64"

----------------------------------------------------------------------------
(* The resolver state handed to and returned by the parts of load() *)

State(d, l, s) == [default_arch |-> d, supported_arch |-> l, supported_set |-> s]

\* CpuArch.__init__
Fresh == State(NoDefault, <<>>, {})

Returned(st) == [st |-> st, exc |-> "none"]
Raised(st, e) == [st |-> st, exc |-> e]

\* A mutant of load_config_error: the handler resets the resolver.
load_config_error_clears(st) == Returned(Fresh)

\* load(), lines 54-56: the read failed; log and return
load_config_error(st) == Returned(st)

\* A mutant of load_no_machine: the set is not refreshed after the append.
load_no_machine_stale_set(native_support, st) ==
    Returned(State(native_support,
                   Append(st.supported_arch, native_support),
                   st.supported_set))

\* load(), lines 62-67: no machine type
load_no_machine(native_support, st) ==
    LET l == Append(st.supported_arch, native_support)
    IN  Returned(State(native_support, l, Range(l)))

\* A mutant of load_aarch64: the list is extended as in the other branches.
load_aarch64_extend(st) ==
    LET l == st.supported_arch \o <<"aarch64", "armv7", "armhf">>
    IN  Returned(State("aarch64", l, Range(l)))

\* load(), lines 70-76: the aarch64 override
load_aarch64(st) ==
    LET l == <<"aarch64", "armv7", "armhf">>
    IN  Returned(State("aarch64", l, Range(l)))

\* load(), lines 78-91: the machine type is looked up in arch.json.
\* self.supported[0] on line 81 raises IndexError on an empty list; the
\* extend of line 80 has happened by then, the set is not yet refreshed.
load_normal(data, machine, native_support, st) ==
    IF machine \in DOMAIN data
    THEN LET l1 == st.supported_arch \o data[machine] IN
         IF l1 = <<>>
         THEN Raised(State(st.default_arch, l1, st.supported_set), "IndexError")
         ELSE LET l2 == IF native_support \notin Range(l1)
                        THEN Append(l1, native_support) ELSE l1
              IN  Returned(State(l1[1], l2, Range(l2)))
    ELSE LET l1 == Append(st.supported_arch, native_support)
             l2 == IF native_support \notin Range(l1)
                   THEN Append(l1, native_support) ELSE l1
         IN  Returned(State(native_support, l2, Range(l2)))

\* load(), lines 58-91: what runs, without a further await, once the table
\* has been read
load_body(data, machine, raw, st) ==
    LET native_support == detect_cpu(raw) IN
    IF machine = ""
    THEN load_no_machine(native_support, st)
    ELSE IF native_support = "aarch64" \/ machine = "aarch64"
    THEN load_aarch64(st)
    ELSE load_normal(data, machine, native_support, st)

\* set.isdisjoint(iterable)
isdisjoint(s, other) == \A i \in 1..Len(other) : other[i] \notin s

\* A mutant of is_supported: every candidate has to be supported.
is_supported_all(set, arch_list) ==
    \A i \in 1..Len(arch_list) : arch_list[i] \in set

\* is_supported(), lines 93-95
is_supported(set, arch_list) == ~isdisjoint(set, arch_list)

\* match(), lines 99-102, from position i of self.supported on
RECURSIVE match_from(_, _, _)
match_from(supported, arch_list, i) ==
    IF i > Len(supported)
    THEN [ret |-> "", exc |-> "HassioArchNotFound"]
    ELSE IF \E j \in 1..Len(arch_list) : arch_list[j] = supported[i]
    THEN [ret |-> supported[i], exc |-> "none"]
    ELSE match_from(supported, arch_list, i + 1)

\* A mutant of match: the candidates are walked, so their order decides.
match_input_order(supported, arch_list) ==
    match_from(arch_list, supported, 1)

\* match(), lines 97-102
match(supported, arch_list) == match_from(supported, arch_list, 1)

----------------------------------------------------------------------------
(* Inputs *)

\* platform.machine() values of the state machine, one or more for each tag
CpuStrings ==
    { S_x86_64, S_i686, <<"a", "r", "m", "v", "7", "l">>, S_arm,
      <<"A", "A", "r", "c", "h", "6", "4">> }

\* machine types: undetected (None and "" are both falsy on line 62 and are
\* modelled by ""), the aarch64 machine, a board
Machines == {"", "aarch64", "raspberrypi4"}

\* tags the lists of arch.json are made of
TableTags == {"armv7", "armhf", "amd64"}

TableLists == SeqsUpTo(TableTags, MaxListLen)

\* arch.json contents: no entry, or one entry for one of the machine types
Tables ==
    UNION {[D -> TableLists] : D \in {{}, {"raspberrypi4"}, {"aarch64"}}}

\* candidate lists of the callers of is_supported() and match()
QueryTags == {"aarch64", "armv7", "armhf", "amd64"}

ArchLists == SeqsUpTo(QueryTags, MaxArchList)

\* the empty list and the lists of one candidate
ShortLists == {<<>>} \cup {<<t>> : t \in QueryTags}

\* the arch.json of the queries' state machine: one board and its list
QueryTables == {[m \in {"raspberrypi4"} |-> <<"armv7", "armhf">>]}

\* the pieces raw CPU strings are put together from
Fragments ==
    { S_arm, <<"A", "R", "M">>, S_v7, S_v8, <<"V", "8">>, S_aarch64,
      <<"A", "A", "r", "c", "h", "6", "4">>, S_i686, S_x86_64, S_armv6,
      <<"l">>, <<"-", "f", "o", "o">> }

RECURSIVE Concats(_)
Concats(n) ==
    IF n = 0 THEN {<<>>}
    ELSE LET shorter == Concats(n - 1)
         IN  shorter \cup {s \o f : s \in shorter, f \in Fragments}

RawStrings == Concats(MaxFrags)

----------------------------------------------------------------------------
(* The state machine *)

InitWith(tables, machines, raws) ==
    /\ arch_data \in tables
    /\ sys_machine \in machines
    /\ cpu_arch_raw \in raws
    /\ default_arch = NoDefault
    /\ supported_arch = <<>>
    /\ supported_set = {}
    /\ started = 0
    /\ awaiting = 0
    /\ awaiting_fresh = 0
    /\ loads_ok = 0
    /\ last_op = "init"
    /\ last_arg = <<>>
    /\ last_read = "n/a"
    /\ last_ret = "None"
    /\ last_exc = "none"
    /\ last_fresh = FALSE
    /\ pre_default = NoDefault
    /\ pre_supported = <<>>
    /\ pre_set = {}

Init == InitWith(Tables, Machines, CpuStrings)

Snapshot ==
    /\ pre_default' = default_arch
    /\ pre_supported' = supported_arch
    /\ pre_set' = supported_set

Current == State(default_arch, supported_arch, supported_set)

Assign(st) ==
    /\ default_arch' = st.default_arch
    /\ supported_arch' = st.supported_arch
    /\ supported_set' = st.supported_set

\* load(), lines 50-53: the coroutine starts and is suspended while the
\* executor reads arch.json
LoadCall ==
    /\ started < MaxLoads
    /\ started' = started + 1
    /\ awaiting' = awaiting + 1
    /\ awaiting_fresh' =
           IF Current = Fresh THEN awaiting_fresh + 1 ELSE awaiting_fresh
    /\ UNCHANGED <<env, resolver, loads_ok, last_op, last_arg, last_read,
                   last_ret, last_exc, last_fresh, pre_default, pre_supported,
                   pre_set>>

\* one of the suspended load() coroutines is resumed: one that was called on
\* a still empty resolver (fresh) or one that was called later
Resumed(fresh) ==
    /\ IF fresh THEN awaiting_fresh > 0 ELSE awaiting > awaiting_fresh
    /\ awaiting' = awaiting - 1
    /\ awaiting_fresh' = IF fresh THEN awaiting_fresh - 1 ELSE awaiting_fresh
    /\ last_fresh' = fresh

\* load(), lines 53-56: read_json_file raised ConfigurationFileError
LoadReadFails ==
    /\ \E fresh \in BOOLEAN : Resumed(fresh)
    /\ LET r == load_config_error(Current) IN
       /\ Assign(r.st)
       /\ last_exc' = r.exc
    /\ last_op' = "load"
    /\ last_arg' = <<>>
    /\ last_read' = "ConfigurationFileError"
    /\ last_ret' = "None"
    /\ Snapshot
    /\ UNCHANGED <<env, started, loads_ok>>

\* load(), lines 53 and 58-91: the table was read; the rest of load() runs
\* to its end without giving up control
LoadResume ==
    /\ \E fresh \in BOOLEAN : Resumed(fresh)
    /\ LET r == load_body(arch_data, sys_machine, cpu_arch_raw, Current) IN
       /\ Assign(r.st)
       /\ last_exc' = r.exc
       /\ loads_ok' = IF r.exc = "none" THEN loads_ok + 1 ELSE loads_ok
    /\ last_op' = "load"
    /\ last_arg' = <<>>
    /\ last_read' = "ok"
    /\ last_ret' = "None"
    /\ Snapshot
    /\ UNCHANGED <<env, started>>

\* is_supported(arch_list)
IsSupportedCall(lists) ==
    \E arch_list \in lists :
        /\ last_op' = "is_supported"
        /\ last_arg' = arch_list
        /\ last_read' = "n/a"
        /\ last_ret' = is_supported(supported_set, arch_list)
        /\ last_exc' = "none"
        /\ last_fresh' = FALSE
        /\ Snapshot
        /\ UNCHANGED <<env, resolver, calls>>

\* match(arch_list)
MatchCall(lists) ==
    \E arch_list \in lists :
        /\ LET r == match(supported_arch, arch_list) IN
           /\ last_ret' = r.ret
           /\ last_exc' = r.exc
        /\ last_op' = "match"
        /\ last_arg' = arch_list
        /\ last_read' = "n/a"
        /\ last_fresh' = FALSE
        /\ Snapshot
        /\ UNCHANGED <<env, resolver, calls>>

\* detect_cpu()
DetectCpuCall ==
    /\ last_op' = "detect_cpu"
    /\ last_arg' = <<>>
    /\ last_read' = "n/a"
    /\ last_ret' = detect_cpu(cpu_arch_raw)
    /\ last_exc' = "none"
    /\ last_fresh' = FALSE
    /\ Snapshot
    /\ UNCHANGED <<env, resolver, calls>>

Next ==
    \/ LoadCall
    \/ LoadReadFails
    \/ LoadResume
    \/ IsSupportedCall(ShortLists)
    \/ MatchCall(ShortLists)
    \/ DetectCpuCall

Spec == Init /\ [][Next]_vars

\* The same resolver under one arch.json, queried with every candidate list
InitQuery == InitWith(QueryTables, Machines, CpuStrings)

NextQuery ==
    \/ LoadCall
    \/ LoadReadFails
    \/ LoadResume
    \/ IsSupportedCall(ArchLists)
    \/ MatchCall(ArchLists)
    \/ DetectCpuCall

SpecQuery == InitQuery /\ [][NextQuery]_vars

\* detect_cpu() alone, over the raw CPU strings put together from Fragments
InitCpu == InitWith({<<>>}, {""}, RawStrings)

NextCpu == DetectCpuCall

SpecCpu == InitCpu /\ [][NextCpu]_vars

----------------------------------------------------------------------------
(* Properties *)

Min(S) == CHOOSE x \in S : \A y \in S : x <= y

NoDuplicates(l) == \A i, j \in 1..Len(l) : l[i] = l[j] => i = j

NativeSupport == detect_cpu(cpu_arch_raw)

ResolverUnchanged ==
    /\ default_arch = pre_default
    /\ supported_arch = pre_supported
    /\ supported_set = pre_set

\* the last operation was a load() that read arch.json
LoadedOk == last_op = "load" /\ last_read = "ok"

\* C1: in every reachable state, also one seen while a load() is suspended
\* at its await, supported_set is the set of elements of supported_arch, and
\* a non-empty supported_arch comes from a load() that returned and holds
\* default_arch.
C1_SetMirrorsList ==
    /\ supported_set = Range(supported_arch)
    /\ supported_arch # <<>> =>
           /\ loads_ok > 0
           /\ default_arch \in Range(supported_arch)

\* C1 witness: a query sees a loaded resolver while another load() is
\* suspended at its await.
C1_Witness ==
    /\ awaiting > 0
    /\ loads_ok > 0
    /\ last_op \in {"is_supported", "match"}
    /\ Len(supported_arch) >= 2

\* C2: load() never raises, and when it has returned the resolver is either
\* fully empty or has its default set, the default in the list and the set
\* mirroring the list.
C2_LoadNeverRaises ==
    last_op = "load" =>
        /\ last_exc = "none"
        /\ \/ Current = Fresh
           \/ /\ default_arch # NoDefault
              /\ default_arch \in Range(supported_arch)
              /\ supported_set = Range(supported_arch)

\* C3: match(arch_list) returns the element of supported_arch of smallest
\* index that occurs in arch_list, and raises HassioArchNotFound exactly when
\* there is none, as when supported_arch is empty.
C3_MatchFirstSupported ==
    last_op = "match" =>
        LET hits == {i \in 1..Len(supported_arch) :
                        supported_arch[i] \in Range(last_arg)}
        IN  /\ hits = {} <=> last_exc = "HassioArchNotFound"
            /\ hits # {} =>
                   /\ last_exc = "none"
                   /\ last_ret = supported_arch[Min(hits)]
            /\ supported_arch = <<>> => last_exc = "HassioArchNotFound"

\* C3 witness: match() returned a tag that is not the first supported
\* candidate of arch_list.
C3_Witness ==
    /\ last_op = "match"
    /\ last_exc = "none"
    /\ Len(last_arg) >= 2
    /\ last_arg[1] \in Range(supported_arch)
    /\ last_ret # last_arg[1]

\* C4: is_supported(arch_list) is true exactly when supported_set and
\* arch_list share an element, so it is false on an empty supported_set, and
\* it changes nothing of the resolver.
C4_IsSupportedIffShared ==
    last_op = "is_supported" =>
        /\ last_ret = (supported_set \cap Range(last_arg) # {})
        /\ supported_set = {} => last_ret = FALSE
        /\ ResolverUnchanged

\* C4 witness: is_supported() answered true for a list with a candidate
\* that is not supported.
C4_Witness ==
    /\ last_op = "is_supported"
    /\ last_ret = TRUE
    /\ \E i \in 1..Len(last_arg) : last_arg[i] \notin supported_set

\* C5: a load() that read arch.json with a machine type, on a host whose
\* native tag is aarch64 or whose machine type is "aarch64", leaves
\* [aarch64, armv7, armhf], default aarch64 and the set of the three,
\* whatever the table and the list before held.
C5_Aarch64Override ==
    ( /\ LoadedOk
      /\ sys_machine # ""
      /\ (NativeSupport = "aarch64" \/ sys_machine = "aarch64") ) =>
        /\ last_exc = "none"
        /\ supported_arch = <<"aarch64", "armv7", "armhf">>
        /\ default_arch = "aarch64"
        /\ supported_set = {"aarch64", "armv7", "armhf"}

\* C5 witness: the override ran on a resolver that was loaded before, on a
\* machine type that has a non-empty entry in the table.
C5_Witness ==
    /\ LoadedOk
    /\ sys_machine = "aarch64"
    /\ NativeSupport # "aarch64"
    /\ sys_machine \in DOMAIN arch_data
    /\ arch_data[sys_machine] # <<>>
    /\ pre_supported # <<>>

\* the table's list for the machine type, native support appended if absent
TableThenNative ==
    arch_data[sys_machine] \o
        (IF NativeSupport \in Range(arch_data[sys_machine])
         THEN <<>> ELSE <<NativeSupport>>)

\* C6: after a load() that was called on a freshly constructed resolver and
\* read a table that has the machine type as key, supported_arch is the
\* table's list in table order, followed by native support if and only if
\* it is absent from that list. Stated for the hosts the aarch64 override of
\* lines 70-76 leaves to the table (native tag and machine type other than
\* aarch64).
C6_TableThenNative ==
    ( /\ LoadedOk
      /\ last_fresh
      /\ sys_machine \in DOMAIN arch_data
      /\ sys_machine # "aarch64"
      /\ NativeSupport # "aarch64" ) =>
        supported_arch = TableThenNative

\* C7: a load() that read arch.json without a machine type leaves exactly
\* [native support], native support as default and its singleton as set.
C7_NoMachineSingleton ==
    (LoadedOk /\ sys_machine = "") =>
        /\ supported_arch = <<NativeSupport>>
        /\ default_arch = NativeSupport
        /\ supported_set = {NativeSupport}

\* C8: a load() whose read fails with ConfigurationFileError returns and
\* changes nothing: before any other load() the resolver is still empty with
\* no default, afterwards it keeps what it held.
C8_ReadFailureKeepsState ==
    (last_op = "load" /\ last_read = "ConfigurationFileError") =>
        /\ last_exc = "none"
        /\ ResolverUnchanged
        /\ loads_ok = 0 =>
               /\ supported_arch = <<>>
               /\ supported_set = {}
               /\ default_arch = NoDefault

\* C8 witness: the read failed on a resolver that was loaded before.
C8_Witness ==
    /\ last_op = "load"
    /\ last_read = "ConfigurationFileError"
    /\ loads_ok > 0
    /\ supported_arch # <<>>

\* the decision table of detect_cpu on a lower-cased string: the six exact
\* keys, then the first of the four substring rules, then amd64
CpuDecision(s) ==
    LET rules == << [hit |-> Contains(s, S_aarch64), tag |-> "aarch64"],
                    [hit |-> Contains(s, S_arm) /\ Contains(s, S_v8),
                     tag |-> "aarch64"],
                    [hit |-> Contains(s, S_arm) /\ Contains(s, S_v7),
                     tag |-> "armv7"],
                    [hit |-> Contains(s, S_arm), tag |-> "armhf"] >>
        hits == {i \in 1..Len(rules) : rules[i].hit}
    IN  CASE s = S_armv7 -> "armv7"
          [] s = S_armv6 -> "armhf"
          [] s = S_armv8 -> "aarch64"
          [] s = S_aarch64 -> "aarch64"
          [] s = S_i686 -> "i386"
          [] s = S_x86_64 -> "amd64"
          [] OTHER -> IF hits = {} THEN "amd64" ELSE rules[Min(hits)].tag

\* C9: detect_cpu() returns one of the five tags, decided by the lower-cased
\* raw string alone: the mapped tag of an exact key, else the first matching
\* substring rule, else amd64; and it changes nothing of the resolver.
C9_DetectCpuDecision ==
    last_op = "detect_cpu" =>
        /\ last_exc = "none"
        /\ last_ret \in Tags
        /\ last_ret = CpuDecision(lower(cpu_arch_raw))
        /\ ResolverUnchanged

\* C9 witness: a string with upper-case letters that is no key and holds
\* arm, v7 and v8 was decided by the v8 rule.
C9_Witness ==
    /\ last_op = "detect_cpu"
    /\ cpu_arch_raw # lower(cpu_arch_raw)
    /\ lower(cpu_arch_raw) \notin DOMAIN MAP_CPU
    /\ ~Contains(lower(cpu_arch_raw), S_aarch64)
    /\ Contains(lower(cpu_arch_raw), S_arm)
    /\ Contains(lower(cpu_arch_raw), S_v7)
    /\ Contains(lower(cpu_arch_raw), S_v8)
    /\ last_ret = "aarch64"

\* C10: once a load() has returned, further load() calls under the same
\* table, machine type and raw CPU string leave the resolver as the first
\* one left it, and a table without duplicates gives a list without
\* duplicates.
C10_LoadIdempotent ==
    loads_ok >= 1 =>
        /\ Current = load_body(arch_data, sys_machine, cpu_arch_raw, Fresh).st
        /\ (\A m \in DOMAIN arch_data : NoDuplicates(arch_data[m])) =>
               NoDuplicates(supported_arch)

====
